---- MODULE Spec2Model ----
(***************************************************************************)
(* Model of the college research assistant: the Flask /chat handler of     *)
(* app.py with its CSV interaction log, and the lambda_handler of          *)
(* lambda_function.py.  Texts are TLA+ strings; a character is a string of *)
(* length one, taken with SubSeq.                                          *)
(***************************************************************************)
EXTENDS Integers, Sequences, FiniteSets, TLC

(***************************************************************************)
(* Python text primitives used by the handlers.                            *)
(***************************************************************************)
Char(s, i) == SubSeq(s, i, i)

\* Python None and the empty text.
None == "<None>"
Empty == ""

UpperAlpha == "ABCDEFGHIJKLMNOPQRSTUVWXYZ"
LowerAlpha == "abcdefghijklmnopqrstuvwxyz"
Digits == {"0", "1", "2", "3", "4", "5", "6", "7", "8", "9"}
Whitespace == {" ", "\t", "\n", "\r"}

UpperLetters == {Char(UpperAlpha, i) : i \in 1..26}
LowerLetters == {Char(LowerAlpha, i) : i \in 1..26}
ToLower == [c \in UpperLetters |-> Char(LowerAlpha, CHOOSE i \in 1..26 : Char(UpperAlpha, i) = c)]
ToUpper == [c \in LowerLetters |-> Char(UpperAlpha, CHOOSE i \in 1..26 : Char(LowerAlpha, i) = c)]

LowerChar(c) == IF c \in UpperLetters THEN ToLower[c] ELSE c
UpperChar(c) == IF c \in LowerLetters THEN ToUpper[c] ELSE c

RECURSIVE Lower(_)
\* str.lower()
Lower(s) == IF s = Empty THEN Empty ELSE LowerChar(Char(s, 1)) \o Lower(Tail(s))

RECURSIVE Upper(_)
\* str.upper()
Upper(s) == IF s = Empty THEN Empty ELSE UpperChar(Char(s, 1)) \o Upper(Tail(s))

RECURSIVE LStripChars(_, _)
LStripChars(s, cs) ==
  IF s # Empty /\ Char(s, 1) \in cs THEN LStripChars(Tail(s), cs) ELSE s

RECURSIVE RStripChars(_, _)
RStripChars(s, cs) ==
  IF s # Empty /\ Char(s, Len(s)) \in cs THEN RStripChars(SubSeq(s, 1, Len(s) - 1), cs) ELSE s

\* str.strip(chars)
StripChars(s, cs) == RStripChars(LStripChars(s, cs), cs)

\* str.strip()
Strip(s) == StripChars(s, Whitespace)

\* str.isdigit() on the ASCII texts of the model: non-empty and all digits.
IsDigit(s) == s # Empty /\ \A i \in 1..Len(s) : Char(s, i) \in Digits

DigitVals == [c \in Digits |-> CHOOSE n \in 0..9 : Char("0123456789", n + 1) = c]
DigitVal(c) == DigitVals[c]

RECURSIVE ToInt(_)
\* int(s) for a text of digits
ToInt(s) == IF s = Empty THEN 0 ELSE 10 * ToInt(SubSeq(s, 1, Len(s) - 1)) + DigitVal(Char(s, Len(s)))

\* str.startswith(p)
StartsWith(s, p) == Len(s) >= Len(p) /\ SubSeq(s, 1, Len(p)) = p

RECURSIVE FindFrom(_, _, _)
FindFrom(s, d, i) ==
  IF i + Len(d) - 1 > Len(s) THEN 0
  ELSE IF SubSeq(s, i, i + Len(d) - 1) = d THEN i
  ELSE FindFrom(s, d, i + 1)

\* index of the first occurrence of the non-empty text d in s, 0 when absent
Find(s, d) == FindFrom(s, d, 1)

RECURSIVE Split(_, _)
\* str.split(d) and re.split(d, s) for a literal non-empty d
Split(s, d) ==
  LET i == Find(s, d)
  IN  IF i = 0 THEN <<s>>
      ELSE <<SubSeq(s, 1, i - 1)>> \o Split(SubSeq(s, i + Len(d), Len(s)), d)

RECURSIVE Join(_, _)
\* d.join(items)
Join(items, d) ==
  IF items = <<>> THEN Empty
  ELSE IF Len(items) = 1 THEN items[1]
  ELSE items[1] \o d \o Join(Tail(items), d)

RECURSIVE Replace(_, _, _)
\* str.replace(c, r) for a single character c
Replace(s, c, r) ==
  IF s = Empty THEN Empty
  ELSE (IF Char(s, 1) = c THEN r ELSE Char(s, 1)) \o Replace(Tail(s), c, r)

\* True of every text the handlers treat as present ("if text:").
Truthy(v) == v # None /\ v # Empty

(***************************************************************************)
(* app.py section 6 and 7: sanitization and helper functions.              *)
(***************************************************************************)
RECURSIVE sanitize_input(_)
\* bleach.clean(text, tags=[], strip=True): every tag "<...>" is removed, a
\* "<" that opens no tag and a ">" outside a tag are escaped, "&" is escaped.
sanitize_input(s) ==
  IF s = Empty THEN Empty
  ELSE LET c == Char(s, 1)
           close == Find(s, ">")
       IN  IF c = "<"
           THEN IF close = 0 THEN "&lt;" \o sanitize_input(Tail(s))
                ELSE sanitize_input(SubSeq(s, close + 1, Len(s)))
           ELSE IF c = ">" THEN "&gt;" \o sanitize_input(Tail(s))
           ELSE IF c = "&" THEN "&amp;" \o sanitize_input(Tail(s))
           ELSE c \o sanitize_input(Tail(s))

\* The characters line.strip(' -*\t') removes (the model's texts are ASCII).
BulletChars == {" ", "-", "*", "\t"}

\* The lead-ins a list item must not start with.
Stoplist == {"here", "the", "this", "certainly"}

\* re.sub(r'^\d+[\.\)]\s*', '', line)
StripOrdinal(line) ==
  LET nd == Len(line) - Len(LStripChars(line, Digits))
  IN  IF nd > 0 /\ nd < Len(line) /\ Char(line, nd + 1) \in {".", ")"}
      THEN LStripChars(SubSeq(line, nd + 2, Len(line)), Whitespace)
      ELSE line

\* The body of the loop of parse_majors_list for a line that is not empty
\* after line.strip(' -*\t'): the cleaned item.
CleanLine(line) ==
  Strip(Replace(Replace(Replace(StripOrdinal(line), "*", Empty), "\"", Empty), ":", Empty))

\* Variant: an item of 2 characters is let in.
KeepItem_TwoChars(item) ==
  Len(item) >= 2 /\ \A p \in Stoplist : ~StartsWith(Lower(item), p)

\* The test that lets a cleaned item into the result.
KeepItem(item) ==
  Len(item) > 2 /\ \A p \in Stoplist : ~StartsWith(Lower(item), p)

RECURSIVE CleanLines(_)
\* the loop of parse_majors_list
CleanLines(lines) ==
  IF lines = <<>> THEN <<>>
  ELSE LET line == StripChars(lines[1], BulletChars)
           item == CleanLine(line)
       IN  (IF line # Empty /\ KeepItem(item) THEN <<item>> ELSE <<>>) \o CleanLines(Tail(lines))

\* majors[:4]
FirstFour(items) == SubSeq(items, 1, IF Len(items) < 4 THEN Len(items) ELSE 4)

parse_majors_list(majors_str) ==
  IF majors_str = Empty THEN <<>> ELSE FirstFour(CleanLines(Split(majors_str, "\n")))

\* "<section_break>".join(sections)
format_response(sections) == Join(sections, "<section_break>")

\* [f"<h2>{s}" for s in (p.strip() for p in re.split(r'<h2>', text)) if s]
H2Sections(text) ==
  LET parts == Split(text, "<h2>")
      kept == SelectSeq(parts, LAMBDA p : Strip(p) # Empty)
  IN  [i \in 1..Len(kept) |-> "<h2>" \o Strip(kept[i])]

MajorUnavailable == "<h2>PROGRAM OVERVIEW</h2><ul><li><strong>Program Description:</strong> Unable to retrieve information at this time.</li></ul>"

\* get_major_sections(major), given the reply of its one gateway call
get_major_sections(major, reply) ==
  IF reply = Empty THEN <<MajorUnavailable>> ELSE H2Sections(reply)

(***************************************************************************)
(* app.py section 4: the gateway.  An outcome of the service is either an  *)
(* error or a completion with a content text.                              *)
(***************************************************************************)
ServiceError == [ok |-> FALSE, content |-> Empty]
Completion(text) == [ok |-> TRUE, content |-> text]

\* call_openai_api(prompt), given the outcome of the service call
call_openai_api(outcome) == IF outcome.ok THEN Strip(outcome.content) ELSE Empty

(***************************************************************************)
(* app.py section 5: the CSV interaction log.  A row holds the columns the *)
(* handlers read back; the timestamp column is written and never read.     *)
(***************************************************************************)
StateTags == {"ASK_NAME", "MAIN_MENU", "ASK_CAREER", "SHOW_MAJORS", "ASK_COLLEGE"}

\* Python "v or ''"
OrEmpty(v) == IF Truthy(v) THEN v ELSE Empty

\* The row csv.writer writes for the arguments of add_interaction.
WrittenRow(session_id, name, current_state, major_selected, college_researched) ==
  [session_id |-> session_id, name |-> OrEmpty(name), current_state |-> OrEmpty(current_state),
   major_selected |-> OrEmpty(major_selected), college_researched |-> OrEmpty(college_researched)]

\* Variant: the state is passed in the place of the name.
add_interaction_Swapped(log, session_id, name, current_state, major_selected, college_researched) ==
  Append(log, WrittenRow(session_id, current_state, name, major_selected, college_researched))

add_interaction(log, session_id, name, current_state, major_selected, college_researched) ==
  Append(log, WrittenRow(session_id, name, current_state, major_selected, college_researched))

\* What get_last_interaction returns for a session without rows (Python None).
NoRow == [session_id |-> None, name |-> None, current_state |-> None,
          major_selected |-> None, college_researched |-> None]

\* [row for row in reader if row['session_id'] == session_id]
RowsOf(log, session_id) == SelectSeq(log, LAMBDA row : row.session_id = session_id)

\* Variant: the first row of the session instead of the last.
get_last_interaction_First(log, session_id) ==
  LET interactions == RowsOf(log, session_id)
  IN  IF interactions # <<>> THEN interactions[1] ELSE NoRow

get_last_interaction(log, session_id) ==
  LET interactions == RowsOf(log, session_id)
  IN  IF interactions # <<>> THEN interactions[Len(interactions)] ELSE NoRow

get_user_majors(log, session_id) ==
  LET rows == SelectSeq(log, LAMBDA row : row.session_id = session_id /\ row.major_selected # Empty)
  IN  [i \in 1..Len(rows) |-> rows[i].major_selected]

(***************************************************************************)
(* app.py section 8: the response texts of chat.                           *)
(***************************************************************************)
Tag(state) == "<br><strong>[" \o state \o "]</strong>"

MenuOptions == "- Explore Careers and Majors<br>- Research Colleges<br>- Get Application Advice"

InitText ==
  "Hello! I'm Clancy, your College Research Assistant. I'm here to help you explore colleges and majors.<br><br>"
  \o "Please type your name to begin:" \o Tag("ASK_NAME")

GreetText(name) ==
  "Nice to meet you, " \o name \o "! How can I help you today?<br><br><strong>Options:</strong><br>"
  \o MenuOptions \o Tag("MAIN_MENU")

AskCareerText == "What career field are you interested in?" \o Tag("ASK_CAREER")
AskCollegeText == "Which college would you like to learn about?" \o Tag("ASK_COLLEGE")

AdviceSections == <<
  "<h2>APPLICATION PLANNING</h2>\n<ul>\n<li><strong>Start Early (Junior Year)</strong></li>\n<li><strong>Research Schools</strong></li>\n<li><strong>Create a Timeline</strong></li>\n<li><strong>Gather Materials</strong></li>\n</ul>",
  "<h2>KEY COMPONENTS</h2>\n<ul>\n<li><strong>Personal Essays</strong></li>\n<li><strong>Recommendation Letters</strong></li>\n<li><strong>Test Scores</strong></li>\n<li><strong>Activities List</strong></li>\n</ul>",
  "<h2>WRITING TIPS</h2>\n<ul>\n<li><strong>Be Authentic</strong></li>\n<li><strong>Show, Don't Tell</strong></li>\n<li><strong>Start Early</strong></li>\n<li><strong>Get Feedback</strong></li>\n</ul>",
  "<h2>FINAL STEPS</h2>\n<ul>\n<li><strong>Double Check Everything</strong></li>\n<li><strong>Meet Deadlines</strong></li>\n<li><strong>Keep Copies</strong></li>\n<li><strong>Follow Up</strong></li>\n</ul>">>

MenuRepromptText == "Please select one of the options below:<br>" \o MenuOptions \o Tag("MAIN_MENU")

CareerUnavailableText == "I'm having trouble suggesting majors right now. Please try again." \o Tag("ASK_CAREER")
CareerUnparsedText == "I'm having trouble processing the majors. Please try another career field." \o Tag("ASK_CAREER")

\* "<br>".join([f"{i+1}. {m}" for i, m in enumerate(majors, 1)]): enumerate
\* counts from 1, so the k-th major carries the label k + 1
majors_html(majors) ==
  Join([k \in 1..Len(majors) |-> ToString(k + 1) \o ". " \o majors[k]], "<br>")

MajorsText(majors) ==
  "Here are some majors to consider:<br><br>" \o majors_html(majors) \o "<br><br>"
  \o "Select one to learn more by typing the number or the name:" \o Tag("SHOW_MAJORS")

MajorsRepromptText(majors) ==
  "Please select a major from the list by typing the number or the name:<br><br>"
  \o majors_html(majors) \o Tag("SHOW_MAJORS")

WhatElse == "<br>What else would you like to know?" \o Tag("MAIN_MENU")

CollegeTroubleText ==
  "I'm having trouble getting information about this college. Please try another." \o Tag("ASK_COLLEGE")

UnexpectedStateText ==
  "I encountered an unexpected state. Let's start over.<br><br><strong>Options:</strong><br>"
  \o MenuOptions \o Tag("MAIN_MENU")

ApologyText == "I encountered an error. Please try again." \o Tag("MAIN_MENU")

BasicUnavailable == "<h2>INSTITUTION OVERVIEW</h2><ul><li><strong>Type and Location:</strong> Unable to retrieve basic college info at this time.</li></ul>"
ProgramUnavailable(major) == "<h2>" \o Upper(major) \o " PROGRAM</h2><ul><li><strong>Program Availability:</strong> Unable to retrieve major-specific information at this time.</li></ul>"
NoMajorsSection == "<h2>MAJOR-SPECIFIC INFORMATION</h2><ul><li>No majors have been selected yet, so no tailored information is available.</li></ul>"

RECURSIVE MajorProgramSections(_, _)
\* the loop "for major in user_majors" of get_college_info; replies[i] is the
\* gateway's reply to the call for user_majors[i]
MajorProgramSections(user_majors, replies) ==
  IF user_majors = <<>> THEN <<>>
  ELSE (IF replies[1] # Empty THEN H2Sections(replies[1]) ELSE <<ProgramUnavailable(user_majors[1])>>)
       \o MajorProgramSections(Tail(user_majors), Tail(replies))

\* get_college_info(college, user_majors); replies[1] answers the basic
\* prompt, replies[1 + i] the prompt for user_majors[i]
get_college_info(college, user_majors, replies) ==
  (IF replies[1] # Empty THEN H2Sections(replies[1]) ELSE <<BasicUnavailable>>)
  \o (IF user_majors # <<>> THEN MajorProgramSections(user_majors, Tail(replies))
      ELSE <<NoMajorsSection>>)

(***************************************************************************)
(* The /chat handler.  A request is the parsed body; outcomes[i] is the    *)
(* outcome of the i-th gateway call of the request; faultAt is the number  *)
(* of the file operation of the request that raises an I/O error (0: none);*)
(* fresh is the id uuid4 generates.  The result holds the log after the    *)
(* request, the response, the state the request was dispatched on (None    *)
(* when it returned before dispatch) and the numbers of gateway calls and  *)
(* file operations made.                                                   *)
(***************************************************************************)
Result(log, status, session_id, text, state, calls, ops) ==
  [csv |-> log, status |-> status, session_id |-> session_id, text |-> text,
   state |-> state, calls |-> calls, ops |-> ops]

\* The except branch of chat: "session_id if 'session_id' in locals() else None"
Fault(log, session_id, state, calls, ops) ==
  Result(log, 500, session_id, ApologyText, state, calls, ops)

\* Variant: the number typed is used as a 0-based index.
selected_major_ZeroBased(user_message, majors) ==
  IF IsDigit(user_message)
  THEN LET index == ToInt(user_message)
       IN  IF 0 <= index /\ index < Len(majors) THEN majors[index + 1] ELSE None
  ELSE IF \E k \in 1..Len(majors) : majors[k] = user_message THEN user_message
  ELSE None

\* The selection of the SHOW_MAJORS branch: the selected major, None if none.
selected_major(user_message, majors) ==
  IF IsDigit(user_message)
  THEN LET index == ToInt(user_message) - 1
       IN  IF 0 <= index /\ index < Len(majors) THEN majors[index + 1] ELSE None
  ELSE IF \E k \in 1..Len(majors) : majors[k] = user_message THEN user_message
  ELSE None

\* Variant: the name is stored as typed, not sanitized.
AskName_Raw(log, session_id, user_message, faultAt, ops) ==
  IF faultAt = ops + 1 THEN Fault(log, session_id, "ASK_NAME", 0, ops + 1)
  ELSE Result(add_interaction(log, session_id, user_message, "MAIN_MENU", None, None),
              200, session_id, GreetText(user_message), "ASK_NAME", 0, ops + 1)

AskName(log, session_id, user_message, faultAt, ops) ==
  LET name == sanitize_input(user_message)
  IN  IF faultAt = ops + 1 THEN Fault(log, session_id, "ASK_NAME", 0, ops + 1)
      ELSE Result(add_interaction(log, session_id, name, "MAIN_MENU", None, None),
                  200, session_id, GreetText(name), "ASK_NAME", 0, ops + 1)

\* A MAIN_MENU choice that appends a record of the given state.
MenuMove(log, session_id, next_state, text, faultAt, ops) ==
  IF faultAt = ops + 1 THEN Fault(log, session_id, "MAIN_MENU", 0, ops + 1)
  ELSE Result(add_interaction(log, session_id, None, next_state, None, None),
              200, session_id, text, "MAIN_MENU", 0, ops + 1)

\* Variant: the choice is compared as typed, without lower().
MainMenu_CaseSensitive(log, session_id, user_message, faultAt, ops) ==
  LET choice == user_message
  IN  IF choice = "explore careers and majors"
      THEN MenuMove(log, session_id, "ASK_CAREER", AskCareerText, faultAt, ops)
      ELSE IF choice = "research colleges"
      THEN MenuMove(log, session_id, "ASK_COLLEGE", AskCollegeText, faultAt, ops)
      ELSE IF choice = "get application advice"
      THEN MenuMove(log, session_id, "MAIN_MENU", format_response(AdviceSections) \o Tag("MAIN_MENU"), faultAt, ops)
      ELSE Result(log, 200, session_id, MenuRepromptText, "MAIN_MENU", 0, ops)

MainMenu(log, session_id, user_message, faultAt, ops) ==
  LET choice == Lower(user_message)
  IN  IF choice = "explore careers and majors"
      THEN MenuMove(log, session_id, "ASK_CAREER", AskCareerText, faultAt, ops)
      ELSE IF choice = "research colleges"
      THEN MenuMove(log, session_id, "ASK_COLLEGE", AskCollegeText, faultAt, ops)
      ELSE IF choice = "get application advice"
      THEN MenuMove(log, session_id, "MAIN_MENU", format_response(AdviceSections) \o Tag("MAIN_MENU"), faultAt, ops)
      ELSE Result(log, 200, session_id, MenuRepromptText, "MAIN_MENU", 0, ops)

\* Variant: the number of parsed majors is not checked.
AskCareer_Unchecked(log, session_id, user_message, outcomes, faultAt, ops) ==
  LET majors_response == call_openai_api(outcomes[1])
      majors == parse_majors_list(majors_response)
  IN  IF majors_response = Empty
      THEN Result(log, 200, session_id, CareerUnavailableText, "ASK_CAREER", 1, ops)
      ELSE IF faultAt = ops + 1 THEN Fault(log, session_id, "ASK_CAREER", 1, ops + 1)
      ELSE Result(add_interaction(log, session_id, None, "SHOW_MAJORS", Join(majors, ", "), None),
                  200, session_id, MajorsText(majors), "ASK_CAREER", 1, ops + 1)

AskCareer(log, session_id, user_message, outcomes, faultAt, ops) ==
  LET majors_response == call_openai_api(outcomes[1])
      majors == parse_majors_list(majors_response)
  IN  IF majors_response = Empty
      THEN Result(log, 200, session_id, CareerUnavailableText, "ASK_CAREER", 1, ops)
      ELSE IF Len(majors) # 4
      THEN Result(log, 200, session_id, CareerUnparsedText, "ASK_CAREER", 1, ops)
      ELSE IF faultAt = ops + 1 THEN Fault(log, session_id, "ASK_CAREER", 1, ops + 1)
      ELSE Result(add_interaction(log, session_id, None, "SHOW_MAJORS", Join(majors, ", "), None),
                  200, session_id, MajorsText(majors), "ASK_CAREER", 1, ops + 1)

\* Variant: a selection leaves the session in SHOW_MAJORS.
ShowMajors_Stay(log, session_id, user_message, last_interaction, outcomes, faultAt, ops) ==
  LET majors == Split(last_interaction.major_selected, ", ")
      selected == selected_major(user_message, majors)
  IN  IF Truthy(selected)
      THEN IF faultAt = ops + 1 THEN Fault(log, session_id, "SHOW_MAJORS", 0, ops + 1)
           ELSE Result(add_interaction(log, session_id, None, "SHOW_MAJORS", last_interaction.major_selected, None),
                       200, session_id,
                       format_response(get_major_sections(selected, call_openai_api(outcomes[1]))) \o WhatElse,
                       "SHOW_MAJORS", 1, ops + 1)
      ELSE Result(log, 200, session_id, MajorsRepromptText(majors), "SHOW_MAJORS", 0, ops)

ShowMajors(log, session_id, user_message, last_interaction, outcomes, faultAt, ops) ==
  LET majors == Split(last_interaction.major_selected, ", ")
      selected == selected_major(user_message, majors)
  IN  IF Truthy(selected)
      THEN IF faultAt = ops + 1 THEN Fault(log, session_id, "SHOW_MAJORS", 0, ops + 1)
           ELSE Result(add_interaction(log, session_id, None, "MAIN_MENU", selected, None),
                       200, session_id,
                       format_response(get_major_sections(selected, call_openai_api(outcomes[1]))) \o WhatElse,
                       "SHOW_MAJORS", 1, ops + 1)
      ELSE Result(log, 200, session_id, MajorsRepromptText(majors), "SHOW_MAJORS", 0, ops)

AskCollege(log, session_id, user_message, outcomes, faultAt, ops) ==
  LET college_name == sanitize_input(user_message)
      user_majors == get_user_majors(log, session_id)
      calls == 1 + Len(user_majors)
      replies == [i \in 1..calls |-> call_openai_api(outcomes[i])]
      sections == get_college_info(college_name, user_majors, replies)
      log2 == add_interaction(log, session_id, None, "MAIN_MENU", None, college_name)
  IN  IF faultAt = ops + 1 THEN Fault(log, session_id, "ASK_COLLEGE", 0, ops + 1)
      ELSE IF faultAt = ops + 2 THEN Fault(log, session_id, "ASK_COLLEGE", 0, ops + 2)
      ELSE IF sections = <<>>
      THEN Result(log2, 200, session_id, CollegeTroubleText, "ASK_COLLEGE", calls, ops + 2)
      ELSE Result(log2, 200, session_id, format_response(sections) \o WhatElse, "ASK_COLLEGE", calls, ops + 2)

UnexpectedState(log, session_id, current_state, faultAt, ops) ==
  IF faultAt = ops + 1 THEN Fault(log, session_id, current_state, 0, ops + 1)
  ELSE Result(add_interaction(log, session_id, None, "MAIN_MENU", None, None),
              200, session_id, UnexpectedStateText, current_state, 0, ops + 1)

\* chat from the choice of the branch on (app.py 339-496): last_interaction is
\* what get_last_interaction returned, log is the log the branch works on
Branch(log, session_id, user_message, last_interaction, outcomes, faultAt, ops) ==
  LET current_state == IF last_interaction # NoRow THEN last_interaction.current_state ELSE "ASK_NAME"
  IN  CASE current_state = "ASK_NAME" -> AskName(log, session_id, user_message, faultAt, ops)
        [] current_state = "MAIN_MENU" -> MainMenu(log, session_id, user_message, faultAt, ops)
        [] current_state = "ASK_CAREER" -> AskCareer(log, session_id, user_message, outcomes, faultAt, ops)
        [] current_state = "SHOW_MAJORS" ->
             ShowMajors(log, session_id, user_message, last_interaction, outcomes, faultAt, ops)
        [] current_state = "ASK_COLLEGE" -> AskCollege(log, session_id, user_message, outcomes, faultAt, ops)
        [] OTHER -> UnexpectedState(log, session_id, current_state, faultAt, ops)

\* chat from the lookup of the last interaction on (app.py 335-496)
Dispatch(log, session_id, user_message, outcomes, faultAt, ops) ==
  IF faultAt = ops + 1 THEN Fault(log, session_id, None, 0, ops + 1)
  ELSE Branch(log, session_id, user_message, get_last_interaction(log, session_id), outcomes, faultAt, ops + 1)

\* The body of a request: get_json() raises on a malformed body and returns
\* None for the JSON text "null"; otherwise it is an object with the fields
\* message and session_id (None when absent).
JsonBody(message, session_id) == [kind |-> "json", message |-> message, session_id |-> session_id]
MalformedBody == [kind |-> "malformed", message |-> None, session_id |-> None]
NullBody == [kind |-> "null", message |-> None, session_id |-> None]

chat(log, data, outcomes, faultAt, fresh) ==
  IF data.kind # "json" THEN Fault(log, None, None, 0, 0)
  ELSE LET user_message == Strip(data.message)
           new == ~Truthy(data.session_id)
           session_id == IF new THEN fresh ELSE data.session_id
           ops == IF new THEN 1 ELSE 0
           log1 == IF new THEN add_interaction(log, session_id, None, "ASK_NAME", None, None) ELSE log
       IN  IF new /\ faultAt = 1 THEN Fault(log, session_id, None, 0, 1)
           ELSE IF Upper(user_message) = "INIT"
           THEN Result(log1, 200, session_id, InitText, None, 0, ops)
           ELSE Dispatch(log1, session_id, user_message, outcomes, faultAt, ops)

(***************************************************************************)
(* lambda_function.py.  The event either has no body (the default "{}" is  *)
(* parsed), a body that is not JSON, or a JSON object with a message; the  *)
(* client context is None or a mapping in which "name" may be missing.     *)
(***************************************************************************)
AbsentBody == [kind |-> "absent", message |-> None, session_id |-> None]

NoContext == [present |-> FALSE, has_name |-> FALSE, name |-> None]
ContextWithout == [present |-> TRUE, has_name |-> FALSE, name |-> None]
ContextWith(name) == [present |-> TRUE, has_name |-> TRUE, name |-> name]

\* success_response(msg)
success_response(msg) == [raised |-> FALSE, status |-> 200, session_id |-> None, text |-> msg]

\* An exception that leaves lambda_handler: there is no response payload.
Raised == [raised |-> TRUE, status |-> 0, session_id |-> None, text |-> Empty]

lambda_handler(event, context) ==
  IF event.kind = "malformed" THEN Raised
  ELSE LET user_message == IF event.kind = "json" THEN event.message ELSE Empty
       IN  IF user_message = "INIT"
           THEN success_response("Hello!\n\nPlease type your name to begin:\n[ASK_NAME]")
           ELSE IF ~context.present THEN Raised
           ELSE IF ~context.has_name \/ ~Truthy(context.name)
           THEN IF user_message # Empty
                THEN success_response("Nice to meet you, " \o user_message \o "!\n\nPlease select an option above.\n[MAIN_MENU]")
                ELSE success_response("Please type your name:\n[ASK_NAME]")
           ELSE success_response("I'm not fully implemented yet.\n[MAIN_MENU]")

(***************************************************************************)
(* Bounds and inputs.                                                      *)
(***************************************************************************)
\* rows the log may hold
MaxLog == 4
\* sessions the server creates
MaxUuid == 1
\* rows the log may hold when one session is followed through a conversation
MaxRows == 6
\* requests that may be in progress at the same time
MaxPending == 2
\* pieces a text handed to the list parser is made of
MaxPieces == 4

\* str(uuid.uuid4()): an id no earlier request has seen
Uuid(n) == "uuid-" \o ToString(n)

\* ids a client makes up itself
ClientIds == {"c1"}
SessionIds == ClientIds \cup {Uuid(n) : n \in 1..MaxUuid}

\* What a user types, by the prompt the user is answering: a name, a menu
\* choice, a career field, a selection among the majors, a college.
NameInputs == {"INIT", "init", "<b>Jordan</b>"}
MenuInputs == {"INIT", "", "Research Colleges", "explore careers and majors", " Get Application Advice ", "Research"}
CareerInputs == {"INIT", "law & order"}
MajorInputs == {"INIT", "", "0", "2", "5", "100", "Chemistry", "chemistry", "ab"}
CollegeInputs == {"INIT", "<i>MIT</i>"}
Messages == NameInputs \cup MenuInputs \cup CareerInputs \cup MajorInputs \cup CollegeInputs

\* 4 majors with ordinals, bullets and punctuation, separated by commas and
\* one per line
CommaList == "1. Biology, 2) Chemistry, - Physics, *Math*"
LineList == "1. Biology\n2) Chemistry\n- Physics\n*Math*"

\* completions of the majors prompt: a numbered list of 4, a lead-in with 2
\* items, and 4 lines among which a number, a line with a comma and "INIT"
MajorsContents ==
  {"1. Biology\n2. Chemistry\n3. Physics\n4. Math\n",
   "Here are some majors:\n- Art\n- Law",
   "100\n, ab\nINIT\nLaw"}

\* completions of the information prompts
InfoContents == {"<h2>", "<h2>A</h2>x <h2>B</h2>y"}

MajorsOutcomes == {ServiceError} \cup {Completion(t) : t \in MajorsContents}
ListOutcomes == MajorsOutcomes \cup {Completion(CommaList), Completion(LineList)}
InfoOutcomes == {ServiceError} \cup {Completion(t) : t \in InfoContents}

Contexts == {NoContext, ContextWithout, ContextWith(Empty), ContextWith("Jordan")}

(***************************************************************************)
(* The state.                                                              *)
(***************************************************************************)
VARIABLES
  deployed,  \* the program that runs: the Flask app or the Lambda function
  csv,       \* the rows of user_choices.csv below the header
  issued,    \* the number of session ids generated so far
  written,   \* history: per session id, the rows add_interaction appended
  req,       \* the last request
  resp,      \* the response to it
  pending,   \* the requests in progress that have read the log and not yet appended
  parsed     \* the last call of parse_majors_list: its argument and what it returned

vars == <<deployed, csv, issued, written, req, resp, pending, parsed>>

NoRequest ==
  [handler |-> "none", data |-> AbsentBody, context |-> NoContext, outcomes |-> <<>>, faultAt |-> 0,
   state |-> None, calls |-> 0, before |-> <<>>]

\* A call of parse_majors_list on a text of the given number of pieces.
Parse(pieces, majors_str) ==
  [pieces |-> pieces, majors_str |-> majors_str, majors |-> parse_majors_list(majors_str)]

NoResponse == [raised |-> FALSE, status |-> 0, session_id |-> None, text |-> Empty]

Init ==
  /\ deployed \in {"app", "lambda"}
  /\ csv = <<>>
  /\ issued = 0
  /\ written = [s \in SessionIds |-> <<>>]
  /\ req = NoRequest
  /\ resp = NoResponse
  /\ pending = <<>>
  /\ parsed = Parse(0, Empty)

\* The ids a client can send: its own and the ones the server handed out.
KnownIds == ClientIds \cup {Uuid(n) : n \in 1..issued}

\* The rows a request appended, added to the history of its session.
Record(r) ==
  IF Len(r.csv) = Len(csv) THEN written
  ELSE [written EXCEPT ![r.session_id] = @ \o SubSeq(r.csv, Len(csv) + 1, Len(r.csv))]

\* The state the next request of a session is dispatched on.
StoredState(log, session_id) ==
  IF get_last_interaction(log, session_id) # NoRow
  THEN get_last_interaction(log, session_id).current_state ELSE "ASK_NAME"

\* The messages a client sends for a session (None: without session id).
MessagesFor(sid) ==
  LET state == IF sid = None THEN "ASK_NAME" ELSE StoredState(csv, sid)
  IN  CASE state = "ASK_NAME" -> NameInputs
        [] state = "MAIN_MENU" -> MenuInputs
        [] state = "ASK_CAREER" -> CareerInputs
        [] state = "SHOW_MAJORS" -> MajorInputs
        [] OTHER -> CollegeInputs

Idle == req.handler = "none"

\* One request handled by chat with the given inputs, from its arrival to its
\* response, while the log holds at most the given number of rows.
HandleWithin(data, outcomes, faultAt, rows) ==
  \E r \in {chat(csv, data, outcomes, faultAt, Uuid(issued + 1))} :
    /\ Len(r.csv) <= rows
    /\ csv' = r.csv
    /\ issued' = IF data.kind = "json" /\ ~Truthy(data.session_id) THEN issued + 1 ELSE issued
    /\ written' = Record(r)
    /\ req' = [handler |-> "chat", data |-> data, context |-> NoContext,
               outcomes |-> SubSeq(outcomes, 1, r.calls), faultAt |-> faultAt,
               state |-> r.state, calls |-> r.calls, before |-> csv]
    /\ resp' = [raised |-> FALSE, status |-> r.status, session_id |-> r.session_id, text |-> r.text]
    /\ UNCHANGED <<deployed, pending, parsed>>

Handle(data, outcomes, faultAt) == HandleWithin(data, outcomes, faultAt, MaxLog)

AllFail == [i \in 1..(MaxLog + MaxRows) |-> ServiceError]

\* The sequences of gateway outcomes a request can meet: one outcome for
\* each call the request makes, among the given outcomes of the majors
\* prompt and those of the information prompts.
OutcomesAmong(data, majors, info) ==
  LET dry == chat(csv, data, AllFail, 0, Uuid(issued + 1))
      pool == IF dry.state = "ASK_CAREER" THEN majors ELSE info
  IN  [1..dry.calls -> pool]

OutcomesFor(data) == OutcomesAmong(data, MajorsOutcomes, InfoOutcomes)

\* POST /chat with a JSON object as body
ChatRequest ==
  /\ deployed = "app" /\ Idle
  /\ \E sid \in KnownIds \cup {None} :
       /\ sid = None => issued < MaxUuid
       /\ \E m \in MessagesFor(sid) :
            \E outcomes \in OutcomesFor(JsonBody(m, sid)) :
              \E faultAt \in 0..chat(csv, JsonBody(m, sid), outcomes \o AllFail, 0, Uuid(issued + 1)).ops :
                Handle(JsonBody(m, sid), outcomes \o AllFail, faultAt)

\* POST /chat with a body that is not a JSON object
ChatBadBody ==
  /\ deployed = "app" /\ Idle
  /\ \E data \in {MalformedBody, NullBody} : Handle(data, AllFail, 0)

\* An invocation of lambda_handler
LambdaRequest ==
  /\ deployed = "lambda" /\ Idle
  /\ \E event \in {AbsentBody, MalformedBody} \cup {JsonBody(m, None) : m \in NameInputs \cup {Empty}},
        context \in Contexts :
       /\ req' = [handler |-> "lambda", data |-> event, context |-> context, outcomes |-> <<>>,
                  faultAt |-> 0, state |-> None, calls |-> 0, before |-> csv]
       /\ resp' = lambda_handler(event, context)
       /\ UNCHANGED <<deployed, csv, issued, written, pending, parsed>>

\* The response has gone to the client; the server waits for a request.
Return ==
  /\ ~Idle
  /\ req' = NoRequest
  /\ resp' = NoResponse
  /\ UNCHANGED <<deployed, csv, issued, written, pending, parsed>>

Next == ChatRequest \/ ChatBadBody \/ LambdaRequest \/ Return

Spec == Init /\ [][Next]_vars

(***************************************************************************)
(* One session followed through a whole conversation: the client "c1"     *)
(* answers each prompt, the log may grow to MaxRows rows, and every file   *)
(* operation succeeds.                                                     *)
(***************************************************************************)
JourneyInputs(state) ==
  CASE state = "ASK_NAME" -> {"Jordan"}
    [] state = "MAIN_MENU" -> {"explore careers and majors", "Research Colleges"}
    [] state = "ASK_CAREER" -> {"law"}
    [] state = "SHOW_MAJORS" -> {"1", "Chemistry", "7"}
    [] OTHER -> {"INIT", "<i>MIT</i>"}

\* POST /chat of the client "c1", answering the prompt of its stored state
JourneyRequest ==
  /\ deployed = "app" /\ Idle
  /\ \E m \in JourneyInputs(StoredState(csv, "c1")) :
       \E outcomes \in OutcomesAmong(JsonBody(m, "c1"), ListOutcomes, InfoOutcomes) :
         HandleWithin(JsonBody(m, "c1"), outcomes \o AllFail, 0, MaxRows)

JourneyInit == Init /\ deployed = "app"

JourneyNext == JourneyRequest \/ Return

Journey == JourneyInit /\ [][JourneyNext]_vars

(***************************************************************************)
(* Overlapping requests.  The development server handles each request in   *)
(* its own thread and chat takes no lock: between the lookup of the last   *)
(* interaction (app.py 336) and the append of the branch, other requests   *)
(* may read and append.  A request in progress holds the row it read.      *)
(***************************************************************************)
OverlapInputs(state) ==
  CASE state = "ASK_NAME" -> {"Jordan"}
    [] state = "MAIN_MENU" -> {"explore careers and majors", "Research Colleges", "get application advice", "Research"}
    [] state = "ASK_CAREER" -> {"law"}
    [] state = "SHOW_MAJORS" -> {"1", "7"}
    [] OTHER -> {"<i>MIT</i>"}

\* chat up to the lookup of the last interaction, for a request that carries
\* a session id and is not INIT (app.py 307-336)
Arrive ==
  /\ deployed = "app" /\ Len(pending) < MaxPending
  /\ \E sid \in ClientIds :
       \E m \in OverlapInputs(StoredState(csv, sid)) :
         pending' = Append(pending, [session_id |-> sid, user_message |-> Strip(m),
                                     last_interaction |-> get_last_interaction(csv, sid)])
  /\ UNCHANGED <<deployed, csv, issued, written, req, resp, parsed>>

\* The gateway outcomes the branch of a request in progress can meet.
OutcomesOf(p) ==
  LET dry == Branch(csv, p.session_id, p.user_message, p.last_interaction, AllFail, 0, 1)
      pool == IF dry.state = "ASK_CAREER" THEN MajorsOutcomes ELSE InfoOutcomes
  IN  [1..dry.calls -> pool]

\* chat from the choice of the branch to the response, for a request in
\* progress (app.py 339-496)
Complete ==
  /\ deployed = "app"
  /\ \E i \in 1..Len(pending) :
       \E outcomes \in OutcomesOf(pending[i]) :
         \E r \in {Branch(csv, pending[i].session_id, pending[i].user_message, pending[i].last_interaction,
                          outcomes \o AllFail, 0, 1)} :
           /\ Len(r.csv) <= MaxLog
           /\ csv' = r.csv
           /\ written' = Record(r)
           /\ pending' = SubSeq(pending, 1, i - 1) \o SubSeq(pending, i + 1, Len(pending))
  /\ UNCHANGED <<deployed, issued, req, resp, parsed>>

OverlapInit == Init /\ deployed = "app"

OverlapNext == Arrive \/ Complete

Overlap == OverlapInit /\ [][OverlapNext]_vars

(***************************************************************************)
(* The list parser on its own: parse_majors_list applied to texts that     *)
(* grow piece by piece, starting from the empty text.                      *)
(***************************************************************************)
\* What a reply of the gateway to the majors prompt is made of: a lead-in
\* followed by a numbered item, a bulleted item followed by an item of 2
\* characters, a quoted lead-in followed by an empty line, an item with no
\* line end, and a starred item followed by a bulleted one.
Pieces ==
  {"Here are some majors:\n1. Biology\n",
   "\t- Art\n3. ab\n",
   "*\"The\":\n\n",
   "12) Law, x",
   "2. *Math*\n- Physics\n"}

\* majors = parse_majors_list(majors_response) (app.py 428) on the text so
\* far followed by one more piece
ParseMore ==
  /\ deployed = "app"
  /\ parsed.pieces < MaxPieces
  /\ \E piece \in Pieces : parsed' = Parse(parsed.pieces + 1, parsed.majors_str \o piece)
  /\ UNCHANGED <<deployed, csv, issued, written, req, resp, pending>>

ParsingInit == Init /\ deployed = "app"

ParsingNext == ParseMore

Parsing == ParsingInit /\ [][ParsingNext]_vars

(***************************************************************************)
(* Vocabulary of the properties.                                           *)
(***************************************************************************)
EndsWith(s, p) == Len(s) >= Len(p) /\ SubSeq(s, Len(s) - Len(p) + 1, Len(s)) = p

\* The text ends with the bracketed tag of the state, bare or in <strong>.
EndsWithTag(text, state) ==
  EndsWith(text, "[" \o state \o "]") \/ EndsWith(text, "[" \o state \o "]</strong>")

Last(q) == q[Len(q)]

\* A chat request with a JSON object as body.
ChatTurn == req.handler = "chat" /\ req.data.kind = "json"
\* ... during which every file operation on the log succeeded
CleanTurn == ChatTurn /\ req.faultAt = 0
\* ... and that returned successfully
OkTurn == CleanTurn /\ resp.status = 200

\* The message of the request as the handler reads it.
UserMessage == Strip(req.data.message)

\* The state of the request's session when the request arrived; a session
\* created by the request had no record.
StateBefore ==
  IF Truthy(req.data.session_id) THEN StoredState(req.before, req.data.session_id) ELSE "ASK_NAME"

\* The rows the request appended, given that it kept the rows it found.
KeptLog == Len(csv) >= Len(req.before) /\ SubSeq(csv, 1, Len(req.before)) = req.before
Appended == SubSeq(csv, Len(req.before) + 1, Len(csv))
NothingAppended == csv = req.before

\* The reply of the i-th gateway call of the request.
Reply(i) == call_openai_api(req.outcomes[i])

\* The session of the request: the id sent, or the one generated for it.
Session == resp.session_id

\* The request appended exactly the given row.
AppendedOnly(row) == KeptLog /\ Appended = <<row>>

(***************************************************************************)
(* C1.  Name continuity.                                                   *)
(***************************************************************************)
\* C1: for every session, once a row with a non-empty name has been appended,
\* the last row of the session carries the most recent non-empty name.
C1_NameContinuity ==
  \A s \in SessionIds :
    LET rows == RowsOf(csv, s)
        named == {i \in 1..Len(rows) : rows[i].name # Empty}
    IN  named # {} => Last(rows).name = rows[CHOOSE i \in named : \A j \in named : j <= i].name

(***************************************************************************)
(* C2.  The tag of a response is the state of the next dispatch.           *)
(***************************************************************************)
\* C2: after every chat request that returns successfully, the state tag at
\* the end of the response is the state the session's next request is
\* dispatched on.
C2_TagIsNextState ==
  OkTurn => EndsWith(resp.text, Tag(StoredState(csv, Session)))

(***************************************************************************)
(* C3.  No fault crosses the boundary of either handler.                   *)
(***************************************************************************)
\* A fault occurred while the request was handled.
Faulted ==
  \/ req.handler = "chat" /\ (req.data.kind # "json" \/ req.faultAt # 0)
  \/ req.handler = "lambda" /\ req.data.kind = "malformed"
  \/ req.handler = "lambda" /\ ~req.context.present
       /\ ~(req.data.kind = "json" /\ req.data.message = "INIT")

\* The session id the handler knew when the fault occurred.
KnownSession ==
  IF req.handler # "chat" \/ req.data.kind # "json" THEN None
  ELSE IF Truthy(req.data.session_id) THEN req.data.session_id
  ELSE Uuid(issued)

\* C3: every request to either handler returns a response whose text ends
\* with a state tag; when a fault occurs no exception leaves the handler and
\* the response is the fixed apology tagged MAIN_MENU with the session id, if
\* known.
C3_NoFaultEscapes ==
  ~Idle =>
    /\ ~resp.raised
    /\ \E t \in StateTags : EndsWithTag(resp.text, t)
    /\ (Faulted => (resp.text = ApologyText /\ resp.session_id = KnownSession))

(***************************************************************************)
(* C4.  A failed generation leaves the session in ASK_CAREER.              *)
(***************************************************************************)
\* The gateway was asked for majors and returned no text or a text that does
\* not parse to exactly 4 items.
CareerFailure ==
  /\ ChatTurn /\ req.state = "ASK_CAREER" /\ req.calls = 1
  /\ (Reply(1) = Empty \/ Len(parse_majors_list(Reply(1))) # 4)

\* C4: in ASK_CAREER, when the gateway returns no text or the parsed result
\* has not exactly 4 items, no row is appended, the stored state stays
\* ASK_CAREER, and the response is a retry prompt tagged ASK_CAREER.
C4_CareerFailureKeepsState ==
  CareerFailure =>
    /\ NothingAppended
    /\ StoredState(csv, Session) = "ASK_CAREER"
    /\ ~resp.raised /\ resp.status = 200
    /\ resp.text \in {CareerUnavailableText, CareerUnparsedText}
    /\ EndsWithTag(resp.text, "ASK_CAREER")

\* A text was returned and parsed to fewer than 4 items; nothing was appended.
C4_Witness ==
  /\ CareerFailure /\ Reply(1) # Empty
  /\ Len(parse_majors_list(Reply(1))) = 2
  /\ NothingAppended /\ StoredState(csv, Session) = "ASK_CAREER"

(***************************************************************************)
(* C5.  Selection among the stored majors.                                 *)
(***************************************************************************)
\* The stored majors of the session, split as SHOW_MAJORS reads them.
StoredMajors == Split(get_last_interaction(req.before, Session).major_selected, ", ")

Selects(major) ==
  /\ AppendedOnly(WrittenRow(Session, None, "MAIN_MENU", major, None))
  /\ EndsWithTag(resp.text, "MAIN_MENU")

SelectsNothing == NothingAppended /\ ~EndsWithTag(resp.text, "MAIN_MENU")

IsStoredMajor(m) == \E k \in 1..Len(StoredMajors) : StoredMajors[k] = m

\* The input is the number of one of the stored majors.
IsIndex == IsDigit(UserMessage) /\ ToInt(UserMessage) \in 1..Len(StoredMajors)
\* The input is a number that is not the number of a stored major.
IsOutOfRange == IsDigit(UserMessage) /\ ToInt(UserMessage) \notin 1..Len(StoredMajors)

\* C5 as stated: a number k in 1..n selects the k-th stored major, an input
\* equal to a stored major name selects it, the numbers 0 and above n select
\* nothing.
C5_Original ==
  (CleanTurn /\ StateBefore = "SHOW_MAJORS") =>
    /\ (IsIndex => Selects(StoredMajors[ToInt(UserMessage)]))
    /\ (IsStoredMajor(UserMessage) => Selects(UserMessage))
    /\ (IsOutOfRange => SelectsNothing)

\* C5 amended: a number k in 1..n selects the k-th stored major when that is
\* not empty; an input that is not a number, not empty and not INIT and
\* equals a stored major name selects it; the numbers 0 and above n select
\* nothing.
C5_Selection ==
  (CleanTurn /\ StateBefore = "SHOW_MAJORS") =>
    /\ ((IsIndex /\ StoredMajors[ToInt(UserMessage)] # Empty)
          => Selects(StoredMajors[ToInt(UserMessage)]))
    /\ ((IsStoredMajor(UserMessage) /\ ~IsDigit(UserMessage) /\ UserMessage # Empty
           /\ Upper(UserMessage) # "INIT")
          => Selects(UserMessage))
    /\ (IsOutOfRange => SelectsNothing)

\* Stored "Biology, Chemistry, Physics, Math" and input "2": Chemistry.
C5_Witness ==
  /\ CleanTurn /\ StateBefore = "SHOW_MAJORS"
  /\ get_last_interaction(req.before, Session).major_selected = "Biology, Chemistry, Physics, Math"
  /\ UserMessage = "2"
  /\ Last(csv).major_selected = "Chemistry" /\ Last(csv).current_state = "MAIN_MENU"

(***************************************************************************)
(* C6.  ASK_NAME takes the input as the name.                              *)
(***************************************************************************)
NameRow == WrittenRow(Session, sanitize_input(UserMessage), "MAIN_MENU", None, None)

\* C6 as stated: in ASK_NAME any non-empty input appends exactly one row,
\* with the sanitized input as name and state MAIN_MENU, and the response
\* greets by name, tagged MAIN_MENU.
C6_Original ==
  (CleanTurn /\ StateBefore = "ASK_NAME" /\ UserMessage # Empty) =>
    /\ AppendedOnly(NameRow)
    /\ resp.text = GreetText(sanitize_input(UserMessage))
    /\ EndsWithTag(resp.text, "MAIN_MENU")

\* C6 amended: in ASK_NAME any non-empty input other than INIT (in any case)
\* appends a row with the sanitized input as name and state MAIN_MENU; it is
\* the only row appended when the request carries a session id and follows
\* the ASK_NAME row of the new session when it carries none; the response
\* greets by name, tagged MAIN_MENU.
C6_AskName ==
  (CleanTurn /\ StateBefore = "ASK_NAME" /\ UserMessage # Empty /\ Upper(UserMessage) # "INIT") =>
    /\ KeptLog
    /\ Appended = IF Truthy(req.data.session_id) THEN <<NameRow>>
                  ELSE <<WrittenRow(Session, None, "ASK_NAME", None, None), NameRow>>
    /\ resp.text = GreetText(sanitize_input(UserMessage))
    /\ EndsWithTag(resp.text, "MAIN_MENU")

\* A request without session id gave the name "<b>Jordan</b>": two rows, the
\* last with the name Jordan.
C6_Witness ==
  /\ CleanTurn /\ StateBefore = "ASK_NAME" /\ req.data.message = "<b>Jordan</b>"
  /\ ~Truthy(req.data.session_id)
  /\ Len(Appended) = 2 /\ Last(csv).name = "Jordan" /\ Last(csv).current_state = "MAIN_MENU"

(***************************************************************************)
(* C7.  Menu matching.                                                     *)
(***************************************************************************)
EqualIgnoringCase(a, b) == Lower(a) = Lower(b)

MenuRow(state) == WrittenRow(Session, None, state, None, None)

\* C7: in MAIN_MENU an input equal, ignoring case, to one of the three menu
\* choices appends one row with the state of the choice and the response is
\* tagged with it (the advice choice returns the 4 fixed sections); no other
\* input appends a row.
C7_MenuMatching ==
  (CleanTurn /\ req.state = "MAIN_MENU") =>
    IF EqualIgnoringCase(UserMessage, "explore careers and majors")
    THEN AppendedOnly(MenuRow("ASK_CAREER")) /\ EndsWithTag(resp.text, "ASK_CAREER")
    ELSE IF EqualIgnoringCase(UserMessage, "research colleges")
    THEN AppendedOnly(MenuRow("ASK_COLLEGE")) /\ EndsWithTag(resp.text, "ASK_COLLEGE")
    ELSE IF EqualIgnoringCase(UserMessage, "get application advice")
    THEN /\ AppendedOnly(MenuRow("MAIN_MENU"))
         /\ Len(AdviceSections) = 4
         /\ resp.text = Join(AdviceSections, "<section_break>") \o Tag("MAIN_MENU")
    ELSE NothingAppended /\ EndsWithTag(resp.text, "MAIN_MENU")

\* "Research Colleges" in mixed case moved the session to ASK_COLLEGE.
C7_Witness ==
  /\ CleanTurn /\ req.state = "MAIN_MENU" /\ req.data.message = "Research Colleges"
  /\ Last(csv).current_state = "ASK_COLLEGE" /\ Len(Appended) = 1

(***************************************************************************)
(* C8.  Read-your-writes on the log.                                       *)
(***************************************************************************)
\* C8: for every session, get_last_interaction returns the last of the rows
\* appended for the session, whatever was appended for other sessions in
\* between, and nothing for a session without rows.
C8_ReadYourWrites ==
  \A s \in SessionIds :
    get_last_interaction(csv, s) = IF written[s] = <<>> THEN NoRow ELSE Last(written[s])

\* Two rows of one session with a row of another session after them.
C8_Witness ==
  \E s, t \in SessionIds :
    /\ s # t /\ Len(written[s]) >= 2 /\ Len(written[t]) >= 1
    /\ Last(csv).session_id = t
    /\ written[s][1] # Last(written[s])

(***************************************************************************)
(* C9.  No state traps a session.                                          *)
(***************************************************************************)
\* The number of turns a session needs at least to be back in MAIN_MENU.
Rank(state) ==
  CASE state = "MAIN_MENU" -> 0
    [] state = "ASK_CAREER" -> 2
    [] OTHER -> 1

\* Some message, with some replies of the gateway, brings the session closer
\* to MAIN_MENU.
CanApproach(s) ==
  \E m \in MessagesFor(s) :
    \E outcomes \in OutcomesFor(JsonBody(m, s)) :
      Rank(StoredState(chat(csv, JsonBody(m, s), outcomes \o AllFail, 0, Uuid(issued + 1)).csv, s))
        < Rank(StoredState(csv, s))

\* C9: from every reachable stored state of a session other than MAIN_MENU,
\* some turn brings the session strictly closer to MAIN_MENU, so that some
\* continuation returns it there.
C9_NoTrap ==
  Idle => \A s \in SessionIds : StoredState(csv, s) # "MAIN_MENU" => CanApproach(s)

\* A session went through ASK_CAREER and SHOW_MAJORS and is back in MAIN_MENU.
C9_Witness ==
  \E s \in SessionIds :
    /\ \E i, j \in 1..Len(written[s]) :
         i < j /\ written[s][i].current_state = "ASK_CAREER" /\ written[s][j].current_state = "SHOW_MAJORS"
    /\ StoredState(csv, s) = "MAIN_MENU"

(***************************************************************************)
(* C10.  The selection is recorded only on full success.                   *)
(***************************************************************************)
\* C10: in SHOW_MAJORS with a valid selection, when the gateway returns no
\* text for the details of the major, no row is appended.
C10_AppendOnlyOnSuccess ==
  (CleanTurn /\ req.state = "SHOW_MAJORS" /\ req.calls = 1 /\ Reply(1) = Empty) => NothingAppended

(***************************************************************************)
(* C11.  The offer of 4 majors is stored and read back unchanged.          *)
(***************************************************************************)
\* The ASK_CAREER turn succeeded: a list of majors was shown.
CareerSuccess == CleanTurn /\ req.state = "ASK_CAREER" /\ EndsWithTag(resp.text, "SHOW_MAJORS")

\* The majors parsed from the reply of the gateway.
ShownMajors == parse_majors_list(Reply(1))

\* C11: a successful ASK_CAREER turn appends exactly one row, with state
\* SHOW_MAJORS and 4 majors in major_selected, and splitting that field on
\* ", " gives the 4 majors shown to the user, in the same order.
C11_OfferRoundTrip ==
  CareerSuccess =>
    /\ Len(ShownMajors) = 4 /\ resp.text = MajorsText(ShownMajors)
    /\ AppendedOnly(WrittenRow(Session, None, "SHOW_MAJORS", Last(csv).major_selected, None))
    /\ Split(Last(csv).major_selected, ", ") = ShownMajors

(***************************************************************************)
(* C12.  The number shown next to a major selects it.                      *)
(***************************************************************************)
\* The number displayed in front of the k-th line of a listing of majors.
DisplayedNumber(listing, k) ==
  LET line == Split(listing, "<br>")[k]
  IN  SubSeq(line, 1, Find(line, ". ") - 1)

\* C12: in SHOW_MAJORS, for every position k, typing the number that the
\* listing of the stored majors displays next to the k-th major selects the
\* k-th major.
C12_LabelSelects ==
  (CleanTurn /\ StateBefore = "SHOW_MAJORS") =>
    \A k \in 1..Len(StoredMajors) :
      UserMessage = DisplayedNumber(majors_html(StoredMajors), k) => Selects(StoredMajors[k])

(***************************************************************************)
(* C13.  An unknown selection changes nothing.                             *)
(***************************************************************************)
IsMenuChoice ==
  \E c \in {"explore careers and majors", "research colleges", "get application advice"} :
    EqualIgnoringCase(UserMessage, c)

\* Nothing was appended and the response is a prompt tagged with the state.
Reprompted(state) ==
  /\ NothingAppended
  /\ StoredState(csv, Session) = state
  /\ EndsWithTag(resp.text, state)

\* C13: in MAIN_MENU an input that matches none of the three menu choices,
\* and in SHOW_MAJORS an input that is neither the number of a stored major
\* nor a stored major name, appends no row, leaves the stored state as it
\* was, and the response is a prompt tagged with that same state.
C13_UnknownSelection ==
  /\ (CleanTurn /\ StateBefore = "MAIN_MENU" /\ ~IsMenuChoice) => Reprompted("MAIN_MENU")
  /\ (CleanTurn /\ StateBefore = "SHOW_MAJORS" /\ ~IsIndex /\ ~IsStoredMajor(UserMessage))
       => Reprompted("SHOW_MAJORS")

(***************************************************************************)
(* C14.  The majors passed to the composition of the college information.  *)
(***************************************************************************)
\* The majors the session chose in SHOW_MAJORS: the major_selected of the
\* rows appended by selections, in insertion order.
ChosenMajors(log, session_id) ==
  LET rows == SelectSeq(log, LAMBDA row : row.session_id = session_id /\ row.current_state = "MAIN_MENU"
                                           /\ row.major_selected # Empty)
  IN  [i \in 1..Len(rows) |-> rows[i].major_selected]

\* C14: in ASK_COLLEGE the list of majors passed to get_college_info holds
\* exactly the majors the session chose in SHOW_MAJORS, in insertion order,
\* and one gateway call is made for each of them after the basic one; the
\* comma-joined offer of 4 majors is not in the list.
C14_OnlyChosenMajors ==
  (CleanTurn /\ req.state = "ASK_COLLEGE") =>
    /\ get_user_majors(req.before, Session) = ChosenMajors(req.before, Session)
    /\ req.calls = 1 + Len(ChosenMajors(req.before, Session))

(***************************************************************************)
(* C15.  ASK_COLLEGE always records the college and answers.               *)
(***************************************************************************)
\* The sections composed for the college of the request.
CollegeSections ==
  get_college_info(sanitize_input(UserMessage), get_user_majors(req.before, Session),
                   [i \in 1..req.calls |-> Reply(i)])

\* C15: in ASK_COLLEGE any input appends exactly one row, with state
\* MAIN_MENU and the sanitized input as college_researched, and whatever
\* the gateway returns for the calls of the turn the response is a composite
\* of at least one section tagged MAIN_MENU, never the ASK_COLLEGE error.
C15_CollegeNeverAborts ==
  (CleanTurn /\ StateBefore = "ASK_COLLEGE") =>
    /\ AppendedOnly(WrittenRow(Session, None, "MAIN_MENU", None, sanitize_input(UserMessage)))
    /\ resp.text # CollegeTroubleText
    /\ EndsWithTag(resp.text, "MAIN_MENU")
    /\ req.calls >= 1 /\ Len(CollegeSections) >= 1
    /\ resp.text = format_response(CollegeSections) \o WhatElse

(***************************************************************************)
(* C16.  A storage fault is a soft failure.                                *)
(***************************************************************************)
\* C16: when a file operation on the log raises an I/O error during a chat
\* request, the request is not aborted: the rows of the log are kept and the
\* response is a normal one (status 200), not the apology of the except
\* branch.
C16_StorageSoftFail ==
  (ChatTurn /\ req.faultAt # 0) =>
    /\ KeptLog
    /\ resp.status = 200
    /\ resp.text # ApologyText

(***************************************************************************)
(* C17.  An invalid generation is retried.                                 *)
(***************************************************************************)
\* C17: in an ASK_CAREER turn whose first reply does not parse to exactly 4
\* majors, the generation is attempted again: the turn makes a second
\* gateway call before it answers that the majors are unavailable.
C17_RetryOnInvalid ==
  (CleanTurn /\ req.state = "ASK_CAREER" /\ Len(parse_majors_list(Reply(1))) # 4) => req.calls >= 2

(***************************************************************************)
(* C18.  The history of a session follows the transition table.            *)
(***************************************************************************)
Permitted ==
  {<<"ASK_NAME", "MAIN_MENU">>, <<"MAIN_MENU", "ASK_CAREER">>, <<"MAIN_MENU", "ASK_COLLEGE">>,
   <<"MAIN_MENU", "MAIN_MENU">>, <<"ASK_CAREER", "SHOW_MAJORS">>, <<"SHOW_MAJORS", "MAIN_MENU">>,
   <<"ASK_COLLEGE", "MAIN_MENU">>}

\* C18: for every session, every two consecutive rows of the session in the
\* log carry states between which the transition table permits a
\* transition, also when requests of the session overlap.
C18_OrderedHistory ==
  \A s \in SessionIds :
    LET rows == RowsOf(csv, s)
    IN  \A i \in 1..(Len(rows) - 1) : <<rows[i].current_state, rows[i + 1].current_state>> \in Permitted

(***************************************************************************)
(* C19.  chat and lambda_handler agree while no name is known.             *)
(***************************************************************************)
\* The state tag at the end of a response text, None when there is none.
TagOf(text) ==
  IF \E t \in StateTags : EndsWithTag(text, t)
  THEN CHOOSE t \in StateTags : EndsWithTag(text, t)
  ELSE None

\* The tag chat answers with to the message in a session without record.
ChatTagFor(message) == TagOf(chat(<<>>, JsonBody(message, "c1"), AllFail, 0, Uuid(1)).text)

\* The tag lambda_handler answers with to the message when the client
\* context holds no name.
LambdaTagFor(message) == TagOf(lambda_handler(JsonBody(message, None), ContextWithout).text)

\* A request to lambda_handler with a message and a client context without
\* a name.
NamelessLambdaTurn ==
  /\ req.handler = "lambda" /\ req.data.kind = "json"
  /\ req.context.present /\ ~(req.context.has_name /\ Truthy(req.context.name))

\* C19: for every message, the response of lambda_handler without a name in
\* the client context carries the tag chat gives for a session in ASK_NAME,
\* and the response of chat in ASK_NAME carries the tag lambda_handler gives;
\* a message equal to INIT ignoring case is tagged ASK_NAME by both.
C19_HandlersAgree ==
  /\ NamelessLambdaTurn =>
       /\ TagOf(resp.text) = ChatTagFor(req.data.message)
       /\ (Upper(req.data.message) = "INIT" => TagOf(resp.text) = "ASK_NAME")
  /\ (CleanTurn /\ StateBefore = "ASK_NAME") =>
       /\ TagOf(resp.text) = LambdaTagFor(req.data.message)
       /\ (Upper(req.data.message) = "INIT" => TagOf(resp.text) = "ASK_NAME")

(***************************************************************************)
(* C20.  The parser splits on commas and on newlines.                      *)
(***************************************************************************)
\* C20: the list "1. Biology, 2) Chemistry, - Physics, *Math*" parses to the
\* 4 items Biology, Chemistry, Physics, Math, and so does the list of the
\* same items one per line; an ASK_CAREER turn that receives either list
\* shows these 4 majors.
C20_CommaOrNewline ==
  (CleanTurn /\ req.state = "ASK_CAREER" /\ Reply(1) \in {CommaList, LineList}) =>
    /\ parse_majors_list(Reply(1)) = <<"Biology", "Chemistry", "Physics", "Math">>
    /\ resp.text = MajorsText(<<"Biology", "Chemistry", "Physics", "Math">>)


(***************************************************************************)
(* C21.  The list parser is total and bounded.                             *)
(***************************************************************************)
\* The items the lines of the text handed to the parser are cleaned to, line
\* by line.
CleanedLines ==
  LET lines == Split(parsed.majors_str, "\n")
  IN  [j \in 1..Len(lines) |-> CleanLine(StripChars(lines[j], BulletChars))]

\* An item survives when it is longer than 2 characters and does not start,
\* in any case, with a lead-in.
Survives(item) ==
  /\ Len(item) > 2
  /\ \A p \in {"here", "the", "this", "certainly"} : ~StartsWith(Lower(item), p)

\* The lines whose item survives.
SurvivingLines(cleaned) == {j \in DOMAIN cleaned : Survives(cleaned[j])}

\* The i-th of a set of lines, counting from the start of the text.
Nth(kept, i) == CHOOSE j \in kept : Cardinality({k \in kept : k <= j}) = i

\* C21: for every text, the empty one included, parse_majors_list returns a
\* sequence of at most 4 items, each longer than 2 characters and none
\* starting, in any case, with here, the, this or certainly; the items are
\* the first 4 surviving items of the text in their original order, and the
\* empty text gives the empty sequence.
C21_ParserBounded ==
  \A majors \in {parsed.majors} : \A cleaned \in {CleanedLines} : \A kept \in {SurvivingLines(cleaned)} :
    /\ parsed.majors_str = Empty => majors = <<>>
    /\ Len(majors) <= 4
    /\ \A i \in 1..Len(majors) : Survives(majors[i])
    /\ Len(majors) = (IF Cardinality(kept) < 4 THEN Cardinality(kept) ELSE 4)
    /\ \A i \in 1..Len(majors) : majors[i] = cleaned[Nth(kept, i)]

\* A text that opens with a lead-in, holds an item of 2 characters and has
\* more than 4 surviving items, parsed to 4 items.
C21_Witness ==
  \E cleaned \in {CleanedLines} :
    /\ Len(parsed.majors) = 4
    /\ StartsWith(parsed.majors_str, "Here are some majors:")
    /\ \E j \in DOMAIN cleaned : cleaned[j] = "ab"
    /\ Cardinality(SurvivingLines(cleaned)) > 4

(***************************************************************************)
(* C22.  The log holds only states the dispatcher knows.                   *)
(***************************************************************************)
\* The request was dispatched to the "unexpected state" branch.
UnexpectedDispatch ==
  ChatTurn /\ req.state \notin {"ASK_NAME", "MAIN_MENU", "ASK_CAREER", "SHOW_MAJORS", "ASK_COLLEGE", None}

\* The request was dispatched to the SHOW_MAJORS branch.
MajorsDispatch == ChatTurn /\ req.state = "SHOW_MAJORS"

\* C22: in every log reachable through the chat endpoint every record's
\* current_state is one of ASK_NAME, MAIN_MENU, ASK_CAREER, SHOW_MAJORS,
\* ASK_COLLEGE, and every record in SHOW_MAJORS has a non-empty
\* major_selected; no request is dispatched to the "unexpected state" branch,
\* and a request dispatched to SHOW_MAJORS finds a non-empty stored list.
C22_KnownStates ==
  /\ \A i \in 1..Len(csv) :
       /\ csv[i].current_state \in {"ASK_NAME", "MAIN_MENU", "ASK_CAREER", "SHOW_MAJORS", "ASK_COLLEGE"}
       /\ csv[i].current_state = "SHOW_MAJORS" => csv[i].major_selected # Empty
  /\ ~UnexpectedDispatch
  /\ resp.text # UnexpectedStateText
  /\ MajorsDispatch =>
       /\ get_last_interaction(req.before, Session).major_selected # Empty
       /\ StoredMajors # <<>>

\* A request dispatched to SHOW_MAJORS, on a log that holds rows of three
\* other states as well.
C22_Witness ==
  /\ MajorsDispatch
  /\ Len(StoredMajors) = 4
  /\ {csv[i].current_state : i \in 1..Len(csv)} = {"ASK_NAME", "MAIN_MENU", "ASK_CAREER", "SHOW_MAJORS"}

====
